---- MODULE Spec2Model ----
(***************************************************************************)
(* Leica TPS-1200 GeoCOM driver: the protocol engine of GeoCom.py          *)
(* (CreateRequest, getTrId, ResponseClass.setResponse, SerialRequest) and  *)
(* the tracking controller of track.py (powerSearchPrism, get_measure).    *)
(*                                                                         *)
(* Texts (requests, replies, tokens) are sequences of one-character        *)
(* strings, so that replace/strip/split/int act on characters as the       *)
(* Python code does.  Time is counted in ticks of half a millisecond.      *)
(***************************************************************************)
EXTENDS Integers, Sequences, FiniteSets, TLC

(* ------------------------------ bounds -------------------------------- *)
\* number of CreateRequest calls explored in one run
MaxCreates == 9
\* timeouts t_timeout range over 1..MaxTimeout ticks
MaxTimeout == 2
\* the positive byte-count hint tried besides length = 0
HintLen == 11
\* ticks that may pass between two successive reads of the clock
MaxJitter == 1
\* capacity of the device's output queue, in bytes
MaxDevOut == 16
\* size of the first chunk when a reply arrives in two parts
ChunkLen == 10
\* attempts to open the port explored in one COM_OpenConnection call
MaxOpens == 12
\* the instrument may hold back its reply to each of the first MaxHeldAt requests
MaxHeldAt == 1

(* ------------------------- program constants -------------------------- *)
PollTicks == 2
SettleTicks == 50
RC_TIMEOUT == 3077
TrIdModulus == 8
nRetries == 10

(* ------------------------------ texts --------------------------------- *)
CR == "\r"
LF == "\n"
QUOTE == "'"
Digits == <<"0", "1", "2", "3", "4", "5", "6", "7", "8", "9">>
DigitSet == {Digits[i] : i \in 1..10}
DigitVal(c) == (CHOOSE i \in 1..10 : Digits[i] = c) - 1

\* str(n) for n >= 0
RECURSIVE str(_)
str(n) == IF n < 10 THEN <<Digits[n + 1]>> ELSE str(n \div 10) \o <<Digits[(n % 10) + 1]>>

replaceNothing(s, old) == s
\* s.replace(old, '') for a one-character old
replace(s, old) == SelectSeq(s, LAMBDA c : c # old)

IsSpace(c) == c \in {" ", "\t", CR, LF}

RECURSIVE lstrip(_)
lstrip(s) == IF s # <<>> /\ IsSpace(Head(s)) THEN lstrip(Tail(s)) ELSE s

RECURSIVE rstrip(_)
rstrip(s) == IF s # <<>> /\ IsSpace(s[Len(s)]) THEN rstrip(SubSeq(s, 1, Len(s) - 1)) ELSE s

\* s.strip()
strip(s) == rstrip(lstrip(s))

\* s.split(sep) for a one-character sep: always at least one word
RECURSIVE split(_, _)
split(s, sep) ==
    IF \E i \in 1..Len(s) : s[i] = sep
    THEN LET i == CHOOSE k \in 1..Len(s) : s[k] = sep /\ \A j \in 1..(k - 1) : s[j] # sep
         IN  <<SubSeq(s, 1, i - 1)>> \o split(SubSeq(s, i + 1, Len(s)), sep)
    ELSE <<s>>

\* int(s) accepts surrounding white space, one sign and at least one digit
IntBody(s) == LET t == strip(s) IN IF t # <<>> /\ Head(t) \in {"+", "-"} THEN Tail(t) ELSE t
IsInt(s) == IntBody(s) # <<>> /\ \A i \in 1..Len(IntBody(s)) : IntBody(s)[i] \in DigitSet
RECURSIVE NatOf(_)
NatOf(d) == IF d = <<>> THEN 0 ELSE 10 * NatOf(SubSeq(d, 1, Len(d) - 1)) + DigitVal(d[Len(d)])
int(s) == IF strip(s) # <<>> /\ Head(strip(s)) = "-" THEN 0 - NatOf(IntBody(s)) ELSE NatOf(IntBody(s))

RECURSIVE join(_, _)
join(ws, sep) == IF ws = <<>> THEN <<>>
                 ELSE IF Len(ws) = 1 THEN ws[1]
                 ELSE ws[1] \o <<sep>> \o join(Tail(ws), sep)

(* ------------------------------ state --------------------------------- *)
VARIABLES
    GTrId,          \* GeoCom.GTrId, the transaction counter
    request,        \* what CreateRequest returned to the caller (None or a text)
    pc,             \* position of SerialRequest
    id,             \* SerialRequest's local id
    length,         \* SerialRequest's parameter length
    t_timeout,      \* SerialRequest's parameter t_timeout
    elapsed,        \* time.time() - t_start at the last reading of the clock
    response,       \* SerialRequest's local response (a ResponseClass)
    outcome,        \* how the SerialRequest call ended
    serial_output,  \* the text the call read as its candidate frame
    rxbuf,          \* the receive buffer of ser
    devOut,         \* bytes the instrument has produced and not yet delivered
    wire,           \* the text the call gave to ser.write
    nCreated,       \* number of CreateRequest calls so far
    arrived,        \* TRUE if a byte reached rxbuf since the call drained it
    afterError,     \* TRUE if the call before this one raised SerialRequestError
    raised,         \* the exception raised inside the call, if any
    raisedAt,       \* the position at which it was raised
    entryLen,       \* number of bytes in rxbuf when the call was entered
    held,           \* number of the request whose reply the instrument holds back, or 0
    answers         \* number of the request that the instrument's output answers, or 0

VARIABLES
    ser,            \* GeoCom.ser: "0" (the initial int), or a port, "open" or "closed"
    opc,            \* position of connection() / COM_OpenConnection
    attempts,       \* attempts to open the port made by the running COM_OpenConnection
    openRet,        \* the error value COM_OpenConnection returned
    proc            \* "running", or "exited" once sys.exit was called

connVars == <<ser, opc, attempts, openRet, proc>>

engineVars == <<GTrId, request, pc, id, length, t_timeout, elapsed, response,
                outcome, serial_output, rxbuf, devOut, wire, nCreated,
                arrived, afterError, raised, raisedAt, entryLen, held, answers, held, answers, connVars>>

VARIABLES
    FAIL_COUNT,     \* track.FAIL_COUNT
    OLD_COORD,      \* track.OLD_COORD
    tpc,            \* position of the controller operation that is running
    res,            \* what the last get_measure call returned or raised
    sent,           \* the requests the running operation has sent, in order
    searchArea,     \* the arguments of the last powerSearchPrism call
    phase,          \* Idle, Searching or Tracking
    streak,         \* failed measurements in a row since FAIL_COUNT was last 0
    pure,           \* TRUE while nothing but failed measurements followed that 0
    trans,          \* Tracking -> Searching transitions since FAIL_COUNT was last 0
    mea,            \* what the measurement request of the last get_measure call got
    psCall,         \* the last powerSearchPrism call of the running operation
    coop            \* the instrument answers every request of a search with return code 0

trackVars == <<FAIL_COUNT, OLD_COORD, tpc, res, sent, searchArea, phase, streak, pure, trans,
               mea, psCall, coop>>

vars == <<engineVars, trackVars>>

\* Python's None, and the absence of a request; no text equals either
None == <<"None">>
NoRequest == <<"NoRequest">>

(* --------------------------- Frame codec ------------------------------ *)
\* a fresh ResponseClass(): the class attributes
ResponseClass == [RC_COM |-> 0, TrId |-> 0, RC |-> 0, parameters |-> <<>>]

\* the words setResponse splits the reply into
Words(text) == split(strip(replace(text, QUOTE)), ",")

\* ResponseClass.setResponse: the exception it raises, if any
setResponseRaises(text) ==
    LET words == Words(text) IN
    IF Len(words) > 1
    THEN IF ~IsInt(words[2]) THEN "ValueError"
         ELSE IF Len(words) < 3 THEN "IndexError"
         ELSE LET words2 == split(words[3], ":") IN
              IF ~IsInt(words2[1]) THEN "ValueError"
              ELSE IF Len(words2) < 2 THEN "IndexError"
              ELSE IF ~IsInt(words2[2]) THEN "ValueError"
              ELSE "none"
    ELSE "none"

setResponseSkipsFirst(self, text) ==
    LET words == Words(text) IN
    IF Len(words) > 1
    THEN LET words2 == split(words[3], ":") IN
         [RC_COM |-> int(words[2]), TrId |-> int(words2[1]), RC |-> int(words2[2]),
          parameters |-> SubSeq(words, 5, Len(words))]
    ELSE self
\* ResponseClass.setResponse: the object after a call that raised nothing
setResponse(self, text) ==
    LET words == Words(text) IN
    IF Len(words) > 1
    THEN LET words2 == split(words[3], ":") IN
         [RC_COM |-> int(words[2]), TrId |-> int(words2[1]), RC |-> int(words2[2]),
          parameters |-> SubSeq(words, 4, Len(words))]
    ELSE self

\* getTrId: the exception it raises, if any
getTrIdRaises(req) ==
    IF req = None THEN "AttributeError"
    ELSE LET ws == split(strip(replace(req, QUOTE)), ",") IN
         IF Len(ws) < 3 THEN "IndexError"
         ELSE IF ~IsInt(split(ws[3], ":")[1]) THEN "ValueError" ELSE "none"

getTrIdFromCommand(req) == int(<<Head(split(strip(replace(req, QUOTE)), ",")[2])>>)
\* getTrId: the value it returns when it raises nothing
getTrId(req) == int(split(split(strip(replace(req, QUOTE)), ",")[3], ":")[1])

\* the text CreateRequest builds from cmd, the counter and args
RECURSIVE ArgsText(_)
ArgsText(args) == IF args = <<>> THEN <<>> ELSE Head(args) \o <<",">> \o ArgsText(Tail(args))

RequestHead(cmd, trid) == <<LF, "%", "R", "1", "Q", ",">> \o cmd \o <<",">> \o str(trid) \o <<":">>

RequestText(cmd, trid, args) ==
    IF Len(args) > 0
    THEN RequestHead(cmd, trid) \o ArgsText(args) \o args[Len(args)]
    ELSE RequestHead(cmd, trid)

\* the value CreateRequest returns
CreateRequestValue(cmd, trid, args) == IF args # None THEN RequestText(cmd, trid, args) ELSE None

NextTrIdSkips(g) == (g + 2) % TrIdModulus
NextTrIdWrap7(g) == IF g + 1 = TrIdModulus - 1 THEN 0 ELSE g + 1
\* the counter after CreateRequest
NextTrId(g) == IF g + 1 = TrIdModulus THEN 0 ELSE g + 1

(* ----------------------------- inputs --------------------------------- *)
\* (cmd, args) pairs of the catalogue: no argument list, an empty one, two arguments
Calls == { <<<<"2", "1", "1", "7">>, None>>,
           <<<<"5", "0", "0", "3", ":">>, <<>>>>,
           <<<<"2", "1", "0", "8">>, <<<<"1", "5", "0">>, <<"1">>>>>> }
\* (length, t_timeout) pairs: any byte count or the hint, each timeout
SendParams == {<<0, t>> : t \in 1..MaxTimeout} \cup {<<HintLen, MaxTimeout>>}

\* replies the instrument (or line noise) may produce for a request with id t
ReplyHead == <<"%", "R", "1", "P">>
Reply(com, tr, rc, params) ==
    join(<<ReplyHead, com, tr \o <<":">> \o rc>> \o params, ",") \o <<CR, LF>>
\* the reply with return code 0 and the parameter 7, in single quotes as a whole,
\* and with the parameter alone in single quotes
QuotedReplies(t) ==
    { <<QUOTE>> \o ReplyHead \o <<",", "0", ",">> \o str(t) \o <<":", "0", ",", "7", QUOTE, CR, LF>>,
      ReplyHead \o <<",", "0", ",">> \o str(t) \o <<":", "0", ",", QUOTE, "7", QUOTE, CR, LF>> }
\* replies to the earlier requests that share the window of ids with request t
StaleWindow == TrIdModulus - 1
StaleReply(t, k) == Reply(<<"0">>, str((t + TrIdModulus - k) % TrIdModulus), <<"0">>, <<>>)
StaleReplies(t) == {StaleReply(t, k) : k \in 1..StaleWindow}
\* the reply the instrument held back for request number n, sent late
HeldReply(n) == Reply(<<"0">>, str((n - 1) % TrIdModulus), <<"0">>, <<>>)
Replies(t) ==
    QuotedReplies(t) \cup StaleReplies(t) \cup
    { Reply(<<"0">>, str(t), <<"0">>, <<>>),
      Reply(<<"0">>, str(t), <<"0">>, <<<<"7">>, <<"9">>>>),
      Reply(<<"0">>, str(t), <<"1", "2">>, <<>>),
      Reply(<<"1">>, str(t), <<"0">>, <<>>),
      Reply(<<"0">>, str(NextTrId(t)), <<"0">>, <<<<"7">>>>),
      ReplyHead \o <<",", "0", ",">> \o str(t) \o <<CR, LF>>,
      ReplyHead \o <<",", "0", ",">> \o str(t) \o <<":", "x", CR, LF>>,
      <<CR, LF>> }

(* ------------------------------ Init ---------------------------------- *)
EngineInit ==
    /\ GTrId = 0
    /\ request = NoRequest
    /\ pc = "idle"
    /\ id = 0
    /\ length = 0
    /\ t_timeout = 1
    /\ elapsed = 0
    /\ response = ResponseClass
    /\ outcome = "none"
    /\ serial_output = <<>>
    /\ rxbuf = <<>>
    /\ devOut = <<>>
    /\ wire = <<>>
    /\ nCreated = 0
    /\ arrived = FALSE
    /\ afterError = FALSE
    /\ raised = "none"
    /\ raisedAt = "none"
    /\ entryLen = 0
    /\ held = 0
    /\ answers = 0
    /\ ser = "0"
    /\ opc = "none"
    /\ attempts = 0
    /\ openRet = 0
    /\ proc = "running"

(* --------------------------- CreateRequest ---------------------------- *)
CreateRequest(cmd, args) ==
    /\ UNCHANGED <<trackVars, connVars, entryLen, held, answers>>
    /\ pc = "idle"
    /\ proc = "running"
    /\ opc = "none"
    /\ nCreated < MaxCreates
    /\ request' = CreateRequestValue(cmd, GTrId, args)
    /\ GTrId' = NextTrId(GTrId)
    /\ nCreated' = nCreated + 1
    /\ UNCHANGED <<pc, id, length, t_timeout, elapsed, response, outcome, serial_output,
                   rxbuf, devOut, wire, arrived, afterError, raised, raisedAt>>

(* --------------------------- SerialRequest ---------------------------- *)
\* line 146, never reached in the code: the error is turned into a response
ExceptOutcomeSwallow == "Ok"
\* lines 144-145: any exception raised in the try, other than KeyboardInterrupt
ExceptOutcome == "SerialRequestError"

InterruptOutcomeAsError == "SerialRequestError"
\* lines 142-143: KeyboardInterrupt raised in the try
InterruptOutcome == "KeyboardInterrupt"

\* the except clauses of lines 142-145
Handler(exc) == IF exc = "KeyboardInterrupt" THEN InterruptOutcome ELSE ExceptOutcome

\* exc is raised inside the try block at the current position
Raise(exc) ==
    /\ pc' = "done"
    /\ raised' = exc
    /\ raisedAt' = pc
    /\ outcome' = Handler(exc)

\* lines 116-117: id = getTrId(request); response = ResponseClass()
\* an exception of getTrId is raised outside the try block and reaches the caller
Enter(len, tmo) ==
    /\ UNCHANGED <<trackVars, connVars, held>>
    /\ pc = "idle"
    /\ proc = "running"
    /\ opc = "none"
    /\ request # NoRequest
    /\ entryLen' = Len(rxbuf)
    /\ UNCHANGED answers
    /\ length' = len
    /\ t_timeout' = tmo
    /\ IF getTrIdRaises(request) # "none"
       THEN /\ pc' = "done"
            /\ raised' = getTrIdRaises(request)
            /\ raisedAt' = "getTrId"
            /\ outcome' = getTrIdRaises(request)
            /\ id' = id
       ELSE /\ pc' = "drain"
            /\ id' = getTrId(request)
            /\ UNCHANGED <<outcome, raised, raisedAt>>
    /\ UNCHANGED <<GTrId, request, elapsed, response, serial_output, rxbuf, devOut,
                   wire, nCreated, arrived, afterError>>

DrainedKeeps(buf) == buf
\* what ser.read(ser.inWaiting()) leaves in the receive buffer
Drained(buf) == <<>>

\* line 121: ser.read(ser.inWaiting()), which empties the buffer or raises; it
\* raises whenever ser is the int 0 or a port that is not open
Drain ==
    /\ UNCHANGED <<trackVars, connVars, entryLen, held, answers>>
    /\ pc = "drain"
    /\ \/ /\ ser = "open"
          /\ rxbuf' = Drained(rxbuf)
          /\ pc' = "write"
          /\ UNCHANGED <<outcome, raised, raisedAt>>
       \/ /\ ser = "open"
          /\ Raise("IOError")
          /\ UNCHANGED rxbuf
       \/ /\ ser # "open"
          /\ Raise(IF ser = "0" THEN "AttributeError" ELSE "PortNotOpenError")
          /\ UNCHANGED rxbuf
    /\ UNCHANGED <<GTrId, request, id, length, t_timeout, elapsed, response,
                   serial_output, devOut, wire, nCreated, arrived, afterError>>

\* lines 122-123: ser.write(request + '\r\n'); t_start = time.time()
\* the instrument answers with one of Replies(id), or with the reply it still owes to an
\* earlier request, or not at all (it may send that reply later); or the write raises
Write ==
    /\ UNCHANGED <<trackVars, connVars, entryLen>>
    /\ pc = "write"
    /\ \/ /\ wire' = request \o <<CR, LF>>
          /\ pc' = "poll"
          /\ UNCHANGED <<outcome, raised, raisedAt>>
          /\ \/ /\ held' = IF held = 0 /\ nCreated <= MaxHeldAt THEN nCreated ELSE held
                /\ UNCHANGED <<devOut, answers>>
             \/ /\ held \notin {0, nCreated}
                /\ devOut' = devOut \o HeldReply(held)
                /\ answers' = held
                /\ held' = 0
             \/ \E r \in Replies(id) :
                  /\ Len(devOut) + Len(r) <= MaxDevOut
                  /\ devOut' = devOut \o r
                  /\ answers' = nCreated
                  /\ UNCHANGED held
       \/ /\ Raise("IOError")
          /\ UNCHANGED <<wire, devOut, held, answers>>
    /\ UNCHANGED <<GTrId, request, id, length, t_timeout, elapsed, response,
                   serial_output, rxbuf, nCreated, arrived, afterError>>

WaitingAnyByte(now) == Len(rxbuf) = 0 /\ now < t_timeout
WaitingNoDeadline(now) == Len(rxbuf) < length \/ (length = 0 /\ Len(rxbuf) = 0)
\* the loop condition of lines 128-129, with the clock reading `now`
Waiting(now) ==
    /\ (Len(rxbuf) < length \/ (length = 0 /\ Len(rxbuf) = 0))
    /\ now < t_timeout

\* lines 128-130: one evaluation of the loop condition, and the sleep if it holds;
\* or ser.inWaiting() raises
Poll ==
    /\ UNCHANGED <<trackVars, connVars, entryLen, held, answers>>
    /\ pc = "poll"
    /\ \/ /\ Waiting(elapsed)
          /\ elapsed' = elapsed + PollTicks
          /\ UNCHANGED <<pc, outcome, raised, raisedAt>>
       \/ /\ ~Waiting(elapsed)
          /\ pc' = "check"
          /\ UNCHANGED <<elapsed, outcome, raised, raisedAt>>
       \/ /\ Raise("IOError")
          /\ UNCHANGED elapsed
    /\ UNCHANGED <<GTrId, request, id, length, t_timeout, response,
                   serial_output, rxbuf, devOut, wire, nCreated, arrived, afterError>>

DeadlineNever(now) == FALSE
\* the test of line 132, with the clock reading `now`
DeadlinePassed(now) == now >= t_timeout

\* lines 132-134: the deadline test, on a fresh reading of the clock
Check ==
    /\ UNCHANGED <<trackVars, connVars, entryLen, held, answers>>
    /\ pc = "check"
    /\ \E d \in 0..MaxJitter :
         /\ elapsed' = elapsed + d
         /\ IF DeadlinePassed(elapsed + d)
            THEN /\ response' = [response EXCEPT !.RC = RC_TIMEOUT]
                 /\ pc' = "done"
                 /\ outcome' = "Timeout"
            ELSE /\ pc' = "settle"
                 /\ UNCHANGED <<response, outcome>>
    /\ UNCHANGED <<GTrId, request, id, length, t_timeout, serial_output, rxbuf, devOut,
                   wire, nCreated, arrived, afterError, raised, raisedAt>>

\* line 136: time.sleep(0.025)
Settle ==
    /\ UNCHANGED <<trackVars, connVars, entryLen, held, answers>>
    /\ pc = "settle"
    /\ elapsed' = elapsed + SettleTicks
    /\ pc' = "read"
    /\ UNCHANGED <<GTrId, request, id, length, t_timeout, response, outcome,
                   serial_output, rxbuf, devOut, wire, nCreated, arrived, afterError,
                   raised, raisedAt>>

MismatchNever(resp, i) == FALSE
MismatchOnlyNext(resp, i) == resp.TrId = NextTrId(i)
\* the test of line 139
Mismatch(resp, i) == resp.TrId # i

\* lines 137-141 and 147: read the candidate frame, decode it, compare the ids;
\* or ser.read raises
Read ==
    /\ UNCHANGED <<trackVars, connVars, entryLen, held, answers>>
    /\ pc = "read"
    /\ \/ /\ serial_output' = rxbuf
          /\ rxbuf' = <<>>
          /\ IF setResponseRaises(rxbuf) # "none"
             THEN /\ Raise(setResponseRaises(rxbuf))
                  /\ UNCHANGED response
             ELSE LET decoded == setResponse(response, rxbuf) IN
                  /\ pc' = "done"
                  /\ UNCHANGED <<raised, raisedAt>>
                  /\ IF Mismatch(decoded, id)
                     THEN /\ response' = [decoded EXCEPT !.RC = RC_TIMEOUT]
                          /\ outcome' = "Timeout"
                     ELSE /\ response' = decoded
                          /\ outcome' = "Ok"
       \/ /\ Raise("IOError")
          /\ UNCHANGED <<rxbuf, serial_output, response>>
    /\ UNCHANGED <<GTrId, request, id, length, t_timeout, elapsed,
                   devOut, wire, nCreated, arrived, afterError>>

\* the user interrupts the call somewhere in the try block
Interrupt ==
    /\ UNCHANGED <<trackVars, connVars, entryLen, held, answers>>
    /\ pc \in {"drain", "write", "poll", "check", "settle", "read"}
    /\ Raise("KeyboardInterrupt")
    /\ UNCHANGED <<GTrId, request, id, length, t_timeout, elapsed, response,
                   serial_output, rxbuf, devOut, wire, nCreated, arrived, afterError>>

\* the caller has taken the result: the locals of the call are gone, and what the
\* instrument has not sent by now is left to a later exchange
Return ==
    /\ UNCHANGED <<trackVars, connVars, held>>
    /\ pc = "done"
    /\ pc' = "idle"
    /\ afterError' = (outcome = "SerialRequestError")
    /\ outcome' = "none"
    /\ raised' = "none"
    /\ raisedAt' = "none"
    /\ request' = NoRequest
    /\ id' = 0
    /\ length' = 0
    /\ t_timeout' = 1
    /\ elapsed' = 0
    /\ response' = ResponseClass
    /\ serial_output' = <<>>
    /\ wire' = <<>>
    /\ arrived' = FALSE
    /\ entryLen' = 0
    /\ answers' = 0
    /\ devOut' = <<>>
    /\ UNCHANGED <<GTrId, rxbuf, nCreated>>

(* ----------------------------- connection ---------------------------- *)
\* track.connection calls COM_OpenConnection; lines 228-236 of GeoCom.py: the
\* constructor of the port opens it, raises, or returns a port that is not open
connection ==
    /\ UNCHANGED trackVars
    /\ pc = "idle"
    /\ proc = "running"
    /\ opc = "none"
    /\ ser # "open"
    /\ attempts' = 1
    /\ \/ ser' = "open" /\ opc' = "loop" /\ UNCHANGED openRet
       \/ ser' = "closed" /\ opc' = "loop" /\ UNCHANGED openRet
       \/ ser' = ser /\ opc' = "returned" /\ openRet' = 1
    /\ UNCHANGED <<GTrId, request, pc, id, length, t_timeout, elapsed, response, outcome,
                   serial_output, rxbuf, devOut, wire, nCreated, arrived, afterError,
                   raised, raisedAt, entryLen, held, answers, proc>>

\* lines 238-246: while (not ser.isOpen()): ser.open(), and the return after it;
\* ser.open() opens the port, raises, or leaves it closed
COM_OpenConnection_loop ==
    /\ UNCHANGED trackVars
    /\ opc = "loop"
    /\ IF ser = "open"
       THEN /\ opc' = "returned"
            /\ openRet' = 0
            /\ UNCHANGED <<ser, attempts>>
       ELSE /\ attempts < MaxOpens
            /\ attempts' = attempts + 1
            /\ \/ ser' = "open" /\ UNCHANGED <<opc, openRet>>
               \/ ser' = "closed" /\ UNCHANGED <<opc, openRet>>
               \/ ser' = ser /\ opc' = "returned" /\ openRet' = 1
    /\ UNCHANGED <<GTrId, request, pc, id, length, t_timeout, elapsed, response, outcome,
                   serial_output, rxbuf, devOut, wire, nCreated, arrived, afterError,
                   raised, raisedAt, entryLen, held, answers, proc>>

\* track.py lines 143-145: sys.exit("Can not open Port... exiting") if the
\* error value is true
connection_result ==
    /\ UNCHANGED trackVars
    /\ opc = "returned"
    /\ opc' = "none"
    /\ attempts' = 0
    /\ openRet' = 0
    /\ proc' = IF openRet # 0 THEN "exited" ELSE "running"
    /\ UNCHANGED <<GTrId, request, pc, id, length, t_timeout, elapsed, response, outcome,
                   serial_output, rxbuf, devOut, wire, nCreated, arrived, afterError,
                   raised, raisedAt, entryLen, held, answers, ser>>

\* lines 262-268: ser.close()
COM_CloseConnection ==
    /\ UNCHANGED trackVars
    /\ pc = "idle"
    /\ proc = "running"
    /\ opc = "none"
    /\ ser = "open"
    /\ ser' = "closed"
    /\ UNCHANGED <<GTrId, request, pc, id, length, t_timeout, elapsed, response, outcome,
                   serial_output, rxbuf, devOut, wire, nCreated, arrived, afterError,
                   raised, raisedAt, entryLen, held, answers, opc, attempts, openRet, proc>>

(* ------------------------- transport channel -------------------------- *)
\* the next n bytes of the instrument's output (all of it if fewer are left)
\* reach the receive buffer
Deliver(n) ==
    /\ UNCHANGED <<trackVars, connVars, entryLen, held, answers>>
    /\ devOut # <<>>
    /\ LET k == IF n < Len(devOut) THEN n ELSE Len(devOut) IN
       /\ rxbuf' = rxbuf \o SubSeq(devOut, 1, k)
       /\ devOut' = SubSeq(devOut, k + 1, Len(devOut))
    /\ arrived' = (arrived \/ pc \in {"write", "poll", "check", "settle", "read"})
    /\ UNCHANGED <<GTrId, request, pc, id, length, t_timeout, elapsed, response,
                   outcome, serial_output, wire, nCreated, afterError, raised, raisedAt>>

(* ======================= tracking controller ========================== *)
\* float(s) accepts surrounding white space, one sign, digits and one point
FloatBody(s) == LET t == strip(s) IN IF t # <<>> /\ Head(t) \in {"+", "-"} THEN Tail(t) ELSE t
IsFloat(s) ==
    LET b == FloatBody(s) IN
    /\ \A i \in 1..Len(b) : b[i] \in DigitSet \cup {"."}
    /\ \E i \in 1..Len(b) : b[i] \in DigitSet
    /\ Cardinality({i \in 1..Len(b) : b[i] = "."}) <= 1

\* what a catalogue function gets from CreateRequest and SerialRequest: a response
\* (its RC and parameters), or SerialRequestError
Resp(rc, ps) == [exc |-> FALSE, RC |-> rc, parameters |-> ps]
Sre == [exc |-> TRUE, RC |-> 0, parameters |-> <<>>]

\* no measurement request was sent by the call
NoMea == [exc |-> FALSE, RC |-> -1, parameters |-> <<>>]

RC_OK == 0
RC_ACCURACY == 1284
RC_ANGLES_ONLY == 1285
RC_ANGLES_NO_DIST == 1288
RC_NO_TARGET == 8710

\* tokens of the parameters of a measurement reply
TokHz == <<"1", ".", "5">>
TokV == <<"0", ".", "7">>
TokDist == <<"9">>
TokBad == <<"x">>
MeaParams == { <<>>, <<TokHz, TokV>>, <<TokHz, TokV, TokDist>>, <<TokV, TokHz, TokDist>>,
               <<TokBad, TokV, TokDist>> }
MeaRCs == {RC_OK, RC_ACCURACY, RC_ANGLES_ONLY, RC_ANGLES_NO_DIST, RC_TIMEOUT, RC_NO_TARGET}
MeaReplies == {Resp(rc, ps) : rc \in MeaRCs, ps \in MeaParams} \cup {Sre}

\* the result of a request whose parameters are not used
AckReplies == {Resp(RC_OK, <<>>), Resp(RC_NO_TARGET, <<>>), Resp(RC_TIMEOUT, <<>>), Sre}
\* the result of a request whose return code is not used either
SetReplies == {Resp(RC_OK, <<>>), Sre}

\* TMC_GetSimpleMea after its SerialRequest returned response
TMC_GetSimpleMea(response_) ==
    LET p == response_.parameters IN
    IF response_.RC = 0
    THEN IF Len(p) < 3 THEN [exc |-> "none", RC |-> 1, coord |-> <<>>]
         ELSE [exc |-> "none", RC |-> 0, coord |-> SubSeq(p, 1, 3)]
    ELSE IF response_.RC = 1284
    THEN IF Len(p) < 3 THEN [exc |-> "IndexError", RC |-> 1284, coord |-> <<>>]
         ELSE [exc |-> "none", RC |-> 1284, coord |-> SubSeq(p, 1, 3)]
    ELSE IF response_.RC = 1285
    THEN IF Len(p) < 2 THEN [exc |-> "IndexError", RC |-> 1285, coord |-> <<>>]
         ELSE [exc |-> "none", RC |-> 1285, coord |-> SubSeq(p, 1, 2)]
    ELSE [exc |-> "none", RC |-> response_.RC, coord |-> <<>>]

\* the requests powerSearchPrism sends, in the order of its code
PsCmds == <<"9043", "9047", "9048", "9052", "9037", "9013">>

PsPlannedAll(rs) == 6
\* how many of them it sends when none raises: the search, then the fine adjust
\* if the search returned 0, then the lock-in if the fine adjust returned 0
PsPlanned(rs) == IF rs[4].RC # 0 THEN 4 ELSE IF rs[5].RC # 0 THEN 5 ELSE 6

\* the first of them to raise SerialRequestError, 0 if none does
PsFirstExc(rs) ==
    IF \E i \in 1..PsPlanned(rs) : rs[i].exc
    THEN CHOOSE i \in 1..PsPlanned(rs) : rs[i].exc /\ \A j \in 1..(i - 1) : ~rs[j].exc
    ELSE 0

\* powerSearchPrism, rs the results of its six requests: what it returns or
\* raises, and the requests it has sent
powerSearchPrism(rs) ==
    IF PsFirstExc(rs) # 0
    THEN [ret |-> "SerialRequestError", sent |-> SubSeq(PsCmds, 1, PsFirstExc(rs))]
    ELSE [ret |-> IF PsPlanned(rs) = 6 /\ rs[6].RC = 0 THEN "True" ELSE "False",
          sent |-> SubSeq(PsCmds, 1, PsPlanned(rs))]

PsInputs == [1..6 -> AckReplies]
\* the inputs that differ in what powerSearchPrism reads of them
PsResults == { rs \in PsInputs :
                 /\ \A i \in 1..3 : rs[i] \in SetReplies
                 /\ \A i \in 1..6 : i > PsPlanned(rs) => rs[i] = Resp(RC_OK, <<>>) }

\* the results a search can get: any, or return code 0 throughout once the
\* instrument answers every request of a search with 0
PsOk == [i \in 1..6 |-> Resp(RC_OK, <<>>)]
PsAnswers == IF coop THEN {PsOk} ELSE PsResults

RecoveryThreshold == 100
RecoveryDueFrom100(n) == n >= RecoveryThreshold
RecoveryDueLate(n) == n > RecoveryThreshold + 1
\* line 260: if FAIL_COUNT > 100
RecoveryDue(n) == n > RecoveryThreshold

\* no powerSearchPrism call was made by the running operation
NoSearch == [rs |-> <<>>, ret |-> "none", sent |-> <<>>]

\* the search windows of the code: the default, the wide one, and the angles
DefaultCenter == <<<<"0">>, <<"1", ".", "5", "7">>>>
DefaultWindow == <<<<"1", ".", "0">>, <<"1", ".", "0">>>>
WideWindow == <<<<"6", ".", "2", "8">>, <<"2">>>>
InitCoord == <<<<"0">>, <<"0">>, <<"0">>>>

TrackInit ==
    /\ FAIL_COUNT = 0
    /\ OLD_COORD = InitCoord
    /\ tpc = "idle"
    /\ res = <<>>
    /\ sent = <<>>
    /\ searchArea = <<>>
    /\ phase = "Idle"
    /\ streak = 0
    /\ pure = TRUE
    /\ trans = 0
    /\ mea = NoMea
    /\ psCall = NoSearch
    /\ coop = FALSE

\* the bookkeeping of a powerSearchPrism call with the given centre and window,
\* rs the results of its requests
Searched(center, window, rs) ==
    /\ searchArea' = center \o window
    /\ sent' = powerSearchPrism(rs).sent
    /\ psCall' = [rs |-> rs, ret |-> powerSearchPrism(rs).ret, sent |-> powerSearchPrism(rs).sent]

(* ---------------------------- setup_station --------------------------- *)
\* lines 204-213: the laser, the axis, the prism type, then the first search
setup_station ==
    /\ tpc = "idle"
    /\ phase = "Idle"
    /\ \E pre \in SetReplies, rs \in PsAnswers :
         IF pre.exc
         THEN /\ sent' = <<"1004">>
              /\ UNCHANGED <<tpc, phase, searchArea, psCall>>
         ELSE LET r == powerSearchPrism(rs) IN
              /\ Searched(DefaultCenter, DefaultWindow, rs)
              /\ tpc' = CASE r.ret = "True" -> "setupMode"
                          [] r.ret = "False" -> "setupLoop"
                          [] OTHER -> "idle"
              /\ phase' = IF r.ret = "SerialRequestError" THEN "Idle" ELSE "Searching"
    /\ UNCHANGED <<FAIL_COUNT, OLD_COORD, res, streak, pure, trans, mea>>
    /\ UNCHANGED <<engineVars, coop>>

\* lines 211-213: while not powerSearchPrism(0.0, 1.57, 6.28, 2)
setup_station_loop ==
    /\ tpc = "setupLoop"
    /\ \E rs \in PsAnswers :
         LET r == powerSearchPrism(rs) IN
         /\ Searched(DefaultCenter, WideWindow, rs)
         /\ tpc' = CASE r.ret = "True" -> "setupMode"
                     [] r.ret = "False" -> "setupLoop"
                     [] OTHER -> "idle"
         /\ phase' = IF r.ret = "SerialRequestError" THEN "Idle" ELSE "Searching"
    /\ UNCHANGED <<FAIL_COUNT, OLD_COORD, res, streak, pure, trans, mea>>
    /\ UNCHANGED <<engineVars, coop>>

\* lines 215-218: TMC_SetEdmMode(9); TMC_DoMeasure()
setup_station_mode ==
    /\ tpc = "setupMode"
    /\ tpc' = "idle"
    /\ \E m \in SetReplies, d \in SetReplies :
         IF m.exc
         THEN sent' = <<"2020">> /\ phase' = "Idle"
         ELSE IF d.exc
         THEN sent' = <<"2020", "2008">> /\ phase' = "Idle"
         ELSE sent' = <<"2020", "2008">> /\ phase' = "Tracking"
    /\ psCall' = NoSearch
    /\ UNCHANGED <<FAIL_COUNT, OLD_COORD, res, searchArea, streak, pure, trans, mea>>
    /\ UNCHANGED <<engineVars, coop>>

(* ----------------------------- get_measure ---------------------------- *)
\* line 260: the test of the failure count
get_measure ==
    /\ tpc = "idle"
    /\ phase # "Idle"
    /\ sent' = <<>>
    /\ mea' = NoMea
    /\ psCall' = NoSearch
    /\ IF RecoveryDue(FAIL_COUNT)
       THEN /\ tpc' = "recover"
            /\ phase' = "Searching"
            /\ trans' = IF phase = "Tracking" THEN trans + 1 ELSE trans
       ELSE /\ tpc' = "measure"
            /\ UNCHANGED <<phase, trans>>
    /\ UNCHANGED <<FAIL_COUNT, OLD_COORD, res, searchArea, streak, pure>>
    /\ UNCHANGED <<engineVars, coop>>

\* a powerSearchPrism call of the recovery returned or raised r
Recovered(r) ==
    IF r.ret = "True"
    THEN /\ FAIL_COUNT' = 0
         /\ tpc' = "measure"
         /\ phase' = "Tracking"
         /\ streak' = 0
         /\ pure' = TRUE
         /\ trans' = 0
         /\ UNCHANGED res
    ELSE IF r.ret = "False"
    THEN /\ tpc' = "recoverLoop"
         /\ UNCHANGED <<FAIL_COUNT, phase, streak, pure, trans, res>>
    ELSE /\ tpc' = "idle"
         /\ res' = <<r.ret>>
         /\ UNCHANGED <<FAIL_COUNT, phase, streak, pure, trans>>

\* line 261: if not powerSearchPrism(float(OLD_COORD[0]), float(OLD_COORD[1]))
get_measure_recover ==
    /\ tpc = "recover"
    /\ IF ~(IsFloat(OLD_COORD[1]) /\ IsFloat(OLD_COORD[2]))
       THEN /\ tpc' = "idle"
            /\ res' = <<"ValueError">>
            /\ UNCHANGED <<FAIL_COUNT, phase, streak, pure, trans, sent, searchArea, psCall>>
       ELSE \E rs \in PsAnswers :
              LET r == powerSearchPrism(rs) IN
              /\ Searched(SubSeq(OLD_COORD, 1, 2), DefaultWindow, rs)
              /\ Recovered(r)
    /\ UNCHANGED <<OLD_COORD, mea>>
    /\ UNCHANGED <<engineVars, coop>>

\* lines 262-265: while not powerSearchPrism(..., 6.28, 2), then FAIL_COUNT = 0
get_measure_recover_loop ==
    /\ tpc = "recoverLoop"
    /\ \E rs \in PsAnswers :
         LET r == powerSearchPrism(rs) IN
         /\ Searched(SubSeq(OLD_COORD, 1, 2), WideWindow, rs)
         /\ Recovered(r)
    /\ UNCHANGED <<OLD_COORD, mea>>
    /\ UNCHANGED <<engineVars, coop>>

\* the three float() conversions of lines 271 and 278 succeed
Numeric(coord) == \A i \in 1..3 : IsFloat(coord[i])

OnSuccessKeeps(n) == n
\* line 272: FAIL_COUNT = 0
OnSuccess(n) == 0

\* lines 275-282: the branch of return code 1284 does not assign FAIL_COUNT
OnAccuracy(n) == n

OnFailureKeeps(n) == n
\* lines 288, 294 and 299: FAIL_COUNT += 1
OnFailure(n) == n + 1

OnCommErrorCounts(n) == n + 1
\* lines 301-302: except GeoCom.SerialRequestError returns "4", FAIL_COUNT is not assigned
OnCommError(n) == n

\* lines 266-302 for the measurement m == TMC_GetSimpleMea(...): the new
\* FAIL_COUNT, the new OLD_COORD and what get_measure returns or raises
Measured(m) ==
    IF m.exc # "none"
    THEN [FAIL_COUNT |-> FAIL_COUNT, OLD_COORD |-> OLD_COORD, res |-> <<m.exc>>]
    ELSE IF m.RC = 0
    THEN IF Numeric(m.coord)
         THEN [FAIL_COUNT |-> OnSuccess(FAIL_COUNT), OLD_COORD |-> m.coord,
               res |-> <<"0">> \o m.coord]
         ELSE [FAIL_COUNT |-> OnFailure(FAIL_COUNT), OLD_COORD |-> m.coord, res |-> <<"3">>]
    ELSE IF m.RC = 1284
    THEN IF Numeric(m.coord)
         THEN [FAIL_COUNT |-> OnAccuracy(FAIL_COUNT), OLD_COORD |-> m.coord,
               res |-> <<"1">> \o m.coord]
         ELSE [FAIL_COUNT |-> OnFailure(FAIL_COUNT), OLD_COORD |-> m.coord, res |-> <<"3">>]
    ELSE IF m.RC = 1285 \/ m.RC = 1288
    THEN [FAIL_COUNT |-> OnFailure(FAIL_COUNT), OLD_COORD |-> OLD_COORD, res |-> <<"2">>]
    ELSE [FAIL_COUNT |-> OnFailure(FAIL_COUNT), OLD_COORD |-> OLD_COORD, res |-> <<"3">>]

\* lines 266-302: the measurement request and the handling of its result
get_measure_measure ==
    /\ tpc = "measure"
    /\ tpc' = "idle"
    /\ sent' = Append(sent, "2108")
    /\ psCall' = NoSearch
    /\ \E reply \in MeaReplies :
         LET out == IF reply.exc
                    THEN [FAIL_COUNT |-> OnCommError(FAIL_COUNT), OLD_COORD |-> OLD_COORD,
                          res |-> <<"4">>]
                    ELSE Measured(TMC_GetSimpleMea(reply))
             failed == out.res \in {<<"2">>, <<"3">>}
         IN  /\ mea' = reply
             /\ FAIL_COUNT' = out.FAIL_COUNT
             /\ OLD_COORD' = out.OLD_COORD
             /\ res' = out.res
             /\ IF out.FAIL_COUNT = 0
                THEN streak' = 0 /\ pure' = TRUE /\ trans' = 0
                ELSE IF failed /\ pure
                THEN streak' = streak + 1 /\ UNCHANGED <<pure, trans>>
                ELSE streak' = 0 /\ pure' = FALSE /\ UNCHANGED trans
    /\ UNCHANGED <<searchArea, phase>>
    /\ UNCHANGED <<engineVars, coop>>

\* from now on the instrument answers every request of a search with return code 0
InstrumentAnswers ==
    /\ tpc \in {"recover", "recoverLoop"}
    /\ ~coop
    /\ coop' = TRUE
    /\ UNCHANGED <<FAIL_COUNT, OLD_COORD, tpc, res, sent, searchArea, phase, streak, pure,
                   trans, mea, psCall>>
    /\ UNCHANGED engineVars

Init == EngineInit /\ TrackInit

Next ==
    \/ \E c \in Calls : CreateRequest(c[1], c[2])
    \/ \E p \in SendParams : Enter(p[1], p[2])
    \/ Drain
    \/ Write
    \/ Poll
    \/ Check
    \/ Settle
    \/ Read
    \/ Interrupt
    \/ Return
    \/ connection
    \/ COM_OpenConnection_loop
    \/ connection_result
    \/ COM_CloseConnection
    \/ \E n \in {ChunkLen, MaxDevOut} : Deliver(n)

Spec == Init /\ [][Next]_vars

TrackNext ==
    \/ setup_station
    \/ setup_station_loop
    \/ setup_station_mode
    \/ get_measure
    \/ get_measure_recover
    \/ get_measure_recover_loop
    \/ get_measure_measure
    \/ InstrumentAnswers

SpecTrack == Init /\ [][TrackNext]_vars

\* a get_measure call that is running executes its next statement
SpecTrackFair ==
    /\ SpecTrack
    /\ WF_vars(get_measure_recover)
    /\ WF_vars(get_measure_recover_loop)
    /\ WF_vars(get_measure_measure)

(* ====================== properties: protocol engine ==================== *)
\* the reply text decodes: it has fields and setResponse raises nothing on it
Decodes(text) == Len(Words(text)) > 1 /\ setResponseRaises(text) = "none"
\* the transaction id the reply text decodes to
DecodedTrId(text) == setResponse(ResponseClass, text).TrId
\* the call has returned a response object to its caller
Returned == pc = "done" /\ outcome \in {"Ok", "Timeout"}

\* C1: after N CreateRequest calls the counter is N mod 8, and the id embedded in
\* the request created last (and in what was written for it) is (N-1) mod 8,
\* whatever the commands, the argument lists and the outcomes of the sends.
C1_TrIdIsCountMod8 ==
    /\ GTrId = nCreated % 8
    /\ request \notin {NoRequest, None} => getTrId(request) = (nCreated - 1) % 8
    /\ wire # <<>> => getTrId(wire) = (nCreated - 1) % 8

C1_Witness ==
    /\ nCreated = 9
    /\ GTrId = 1
    /\ pc = "poll"
    /\ getTrId(wire) = 0

\* C2: a call that read a frame which decodes to a transaction id other than the
\* request's ends as Timeout with return code 3077, never as Ok.
C2_MismatchIsTimeout ==
    (pc = "done" /\ raised = "none" /\ Decodes(serial_output) /\ DecodedTrId(serial_output) # id)
        => (outcome = "Timeout" /\ response.RC = 3077)

C2_Witness ==
    /\ pc = "done"
    /\ Decodes(serial_output)
    /\ DecodedTrId(serial_output) # id
    /\ outcome = "Timeout"
    /\ response.RC = 3077

\* C3: when no byte reaches the receive buffer during the call, the poll loop
\* never waits beyond one poll interval past the timeout, and a call that
\* returns a response returns Timeout (3077), not before t_timeout has elapsed
\* and within one poll interval (plus the latency of the clock read) after it.
C3_NoByteTimesOut ==
    /\ (pc = "poll" /\ ~arrived) => elapsed < t_timeout + PollTicks
    /\ (Returned /\ ~arrived) =>
          /\ outcome = "Timeout"
          /\ response.RC = 3077
          /\ elapsed >= t_timeout
          /\ elapsed < t_timeout + PollTicks + MaxJitter

C3_Witness ==
    /\ pc = "done"
    /\ ~arrived
    /\ rxbuf = <<>>
    /\ outcome = "Timeout"
    /\ t_timeout = 1
    /\ elapsed = 2

\* the transaction/return-code field of the reply text lacks the ':' separator
LacksColon(text) ==
    /\ Len(Words(text)) >= 3
    /\ IsInt(Words(text)[2])
    /\ Len(split(Words(text)[3], ":")) = 1

\* C4: a reply whose transaction/return-code field lacks ':' yields the
\* MalformedFrame outcome, not a communication error.
C4_MalformedFrameOutcome ==
    (pc = "done" /\ raisedAt = "read" /\ LacksColon(serial_output)) => outcome = "MalformedFrame"

\* C6: a response is returned as Ok only if the decoded communication status is
\* clean (0) and the decoded transaction id is the request's.
C6_OkOnlyIfCleanAndMatching ==
    (pc = "done" /\ outcome = "Ok") => (response.RC_COM = 0 /\ response.TrId = id)

\* C7: a response returned as Timeout is synthesized: beside the return code
\* 3077 it carries nothing decoded from the discarded frame.
C7_TimeoutIsSynthesized ==
    (pc = "done" /\ outcome = "Timeout") => response = [ResponseClass EXCEPT !.RC = 3077]

\* C8: every call ends as exactly one of Ok, Timeout, MalformedFrame,
\* CommunicationError (SerialRequestError) or a propagated cancellation; no
\* other exception escapes.
C8_OutcomeIsTyped ==
    pc = "done" =>
        outcome \in {"Ok", "Timeout", "MalformedFrame", "SerialRequestError", "KeyboardInterrupt"}

\* C9: an I/O error raised by the drain, the write, the poll or the read ends
\* that call as SerialRequestError and leaves the engine as it was: the counter
\* is still the number of requests created mod 8, and the call after a failed
\* one carries the id of the request created for it.
C9_IOErrorIsSerialRequestError ==
    /\ (pc = "done" /\ raised = "IOError") =>
          (outcome = "SerialRequestError" /\ raisedAt \in {"drain", "write", "poll", "read"})
    /\ (pc = "done" /\ outcome = "SerialRequestError") => GTrId = nCreated % 8
    /\ (afterError /\ pc \notin {"idle", "done"}) => id = (nCreated - 1) % 8

C9_Witness ==
    /\ afterError
    /\ nCreated = 2
    /\ id = 1
    /\ pc = "done"
    /\ outcome = "Ok"
    /\ response.parameters # <<>>

\* rxbuf has only grown at its end in this step
RxKept == Len(rxbuf') >= Len(rxbuf) /\ SubSeq(rxbuf', 1, Len(rxbuf)) = rxbuf

\* C10: a KeyboardInterrupt raised while the call polls ends the call at once as
\* a KeyboardInterrupt with the receive buffer untouched, and bytes leave the
\* receive buffer only in the drain step or the read step of a call.
C10_InterruptLeavesBuffer ==
    [][ /\ (raised # "KeyboardInterrupt" /\ raised' = "KeyboardInterrupt") =>
              (pc' = "done" /\ outcome' = "KeyboardInterrupt" /\ rxbuf' = rxbuf)
        /\ (pc \notin {"drain", "read"} \/ outcome = "KeyboardInterrupt") => RxKept
      ]_vars

C10_Witness ==
    /\ pc = "done"
    /\ outcome = "KeyboardInterrupt"
    /\ raisedAt = "poll"
    /\ elapsed > 0
    /\ rxbuf # <<>>

\* the wire line of the protocol for a command, an id and an argument list
WireLine(cmd, trid, args) ==
    <<LF, "%", "R", "1", "Q", ",">> \o cmd \o <<",">> \o str(trid) \o <<":">>
        \o join(args, ",") \o <<CR, LF>>

\* C11: the bytes written are LF, '%R1Q,', the command, ',', the id, ':', the
\* arguments each once, separated by single commas with no trailing comma, CR LF.
C11_WireLineIsExact ==
    wire # <<>> => \E c \in Calls : c[2] # None /\ wire = WireLine(c[1], id, c[2])

\* C12: the id SerialRequest extracts from the request is the counter value
\* CreateRequest embedded in it (the number of earlier requests mod 8), and a
\* decodable reply that echoes the embedded id is accepted as Ok.
C12_ExtractedIdIsEmbedded ==
    /\ pc \in {"drain", "write", "poll", "check", "settle", "read"} =>
          /\ id = (nCreated - 1) % TrIdModulus
          /\ \E c \in Calls : c[2] # None /\ request = RequestText(c[1], id, c[2])
    /\ (pc = "done" /\ raised = "none" /\ Decodes(serial_output)
           /\ DecodedTrId(serial_output) = (nCreated - 1) % TrIdModulus)
          => (outcome = "Ok" /\ response.TrId = id)

C12_Witness ==
    /\ pc = "done"
    /\ outcome = "Ok"
    /\ ~afterError
    /\ nCreated = 9
    /\ id = 0
    /\ wire = RequestText(<<"2", "1", "0", "8">>, 0, <<<<"1", "5", "0">>, <<"1">>>>) \o <<CR, LF>>
    /\ DecodedTrId(serial_output) = 0

\* return codes and parameter lists of well-formed replies
FrameRCs == {0, 12}
FrameParams == {<<>>, <<<<"7">>>>, <<<<"7">>, <<"9">>>>}

\* C13: a well-formed reply with the request's transaction id is returned as Ok
\* with the frame's return code, zero or not, and the frame's parameter tokens
\* in order; a reply without parameters gives the empty list.
C13_OkCarriesFrameFields ==
    \A com \in {0, 1}, rc \in FrameRCs, ps \in FrameParams :
        (pc = "done" /\ raised = "none" /\ serial_output = Reply(str(com), str(id), str(rc), ps))
            => /\ outcome = "Ok"
               /\ response = [RC_COM |-> com, TrId |-> id, RC |-> rc, parameters |-> ps]

C13_Witness ==
    /\ pc = "done"
    /\ outcome = "Ok"
    /\ id = 3
    /\ serial_output = Reply(<<"0">>, <<"3">>, <<"0">>, <<<<"7">>, <<"9">>>>)
    /\ response.parameters = <<<<"7">>, <<"9">>>>

IsPrefix(a, b) == Len(a) <= Len(b) /\ SubSeq(b, 1, Len(a)) = a

\* C24: a reply to one of the 7 requests before the current one, read whole
\* during the current call, gives Timeout (3077); read in part, it is not
\* returned as Ok either.
C24_StaleReplyIsNotOk ==
    \A k \in 1..StaleWindow :
        /\ (pc = "done" /\ serial_output = StaleReply(id, k))
              => (outcome = "Timeout" /\ response.RC = RC_TIMEOUT)
        /\ (pc = "done" /\ serial_output # <<>> /\ IsPrefix(serial_output, StaleReply(id, k)))
              => outcome # "Ok"

C24_Witness ==
    /\ pc = "done"
    /\ nCreated = 9
    /\ id = 0
    /\ serial_output = Reply(<<"0">>, <<"7">>, <<"0">>, <<>>)
    /\ outcome = "Timeout"

\* C25: the counter stays in 0..7 and changes only in a CreateRequest call, to
\* the next value mod 8: no step of a send, whatever its outcome, and no open
\* or close of the connection changes it.
C25_CounterChangesOnlyOnCreate ==
    [][ /\ GTrId' \in 0..(TrIdModulus - 1)
        /\ nCreated' = nCreated + 1 => GTrId' = (GTrId + 1) % TrIdModulus
        /\ nCreated' = nCreated => GTrId' = GTrId
        /\ nCreated' \in {nCreated, nCreated + 1}
      ]_vars

C25_Witness ==
    /\ GTrId = 1
    /\ nCreated = 9
    /\ ser = "open"
    /\ opc = "returned"
    /\ attempts > 1
    /\ afterError

\* C26: a reply in single quotes, as a whole or around a token, decodes to the
\* fields of the same reply without quotes.
C26_QuotesDoNotChangeDecoding ==
    \A q \in QuotedReplies(id) :
        (pc = "done" /\ serial_output = q) =>
            /\ outcome = "Ok"
            /\ response = [RC_COM |-> 0, TrId |-> id, RC |-> 0, parameters |-> <<<<"7">>>>]
            /\ response = setResponse(ResponseClass, Reply(<<"0">>, str(id), <<"0">>, <<<<"7">>>>))

C26_Witness ==
    /\ pc = "done"
    /\ outcome = "Ok"
    /\ id = 5
    /\ serial_output = ReplyHead \o <<",", "0", ",", "5", ":", "0", ",", QUOTE, "7", QUOTE, CR, LF>>
    /\ response.parameters = <<<<"7">>>>

\* C27: COM_OpenConnection makes at most nRetries attempts to open the port.
C27_OpenWithinRetries ==
    attempts <= nRetries

\* C28: the call empties the receive buffer before it writes the request; after
\* that the buffer only receives what the instrument sends from then on, and
\* the candidate frame is what the buffer then holds.
C28_DrainDiscardsEarlierBytes ==
    [][ /\ (pc = "drain" /\ pc' = "write") => rxbuf' = <<>>
        /\ (wire = <<>> /\ wire' # <<>>) => (pc = "write" /\ rxbuf = <<>>)
        /\ pc \in {"write", "poll", "check", "settle"} =>
              \/ rxbuf' = rxbuf
              \/ \E k \in 1..Len(devOut) : rxbuf' = rxbuf \o SubSeq(devOut, 1, k)
        /\ serial_output' # serial_output => (pc = "read" /\ serial_output' = rxbuf) \/ pc = "done"
      ]_vars

C28_Witness ==
    /\ pc = "done"
    /\ entryLen > 0
    /\ outcome = "Ok"
    /\ serial_output = Reply(<<"0">>, str(id), <<"0">>, <<>>)

\* the expected-length policy of the call on the bytes available
PolicyMet == IF length = 0 THEN Len(rxbuf) > 0 ELSE Len(rxbuf) >= length

\* C29: the poll loop is left only with the policy met or the deadline passed;
\* the frame is read only with the policy met, so with a hint L never with
\* fewer than L bytes, and a response other than Timeout was read from at
\* least L bytes (at least one if L = 0).
C29_PollEndsOnPolicyOrDeadline ==
    /\ pc = "check" => (PolicyMet \/ elapsed >= t_timeout)
    /\ pc \in {"settle", "read"} => PolicyMet
    /\ (Returned /\ outcome = "Ok") =>
          (Len(serial_output) > 0 /\ Len(serial_output) >= length)
    /\ (Returned /\ serial_output = <<>>) => outcome = "Timeout"

C29_Witness ==
    /\ pc = "done"
    /\ length = HintLen
    /\ outcome = "Timeout"
    /\ serial_output = <<>>
    /\ Len(rxbuf) = ChunkLen

\* the bytes of the reply the instrument produced for the call
Whole == serial_output \o rxbuf \o devOut

\* C30: when part of the reply has not arrived by the time the call reads, the
\* call does not return Ok unless what it decoded are the fields of the whole
\* reply.
C30_NoOkFromPrefix ==
    (pc = "done" /\ outcome = "Ok" /\ rxbuf \o devOut # <<>>) =>
        (Decodes(Whole) /\ response = setResponse(ResponseClass, Whole))

\* C31: when the deadline test finds the deadline passed, the call returns at
\* once with return code 3077 and has read nothing: the receive buffer keeps
\* its bytes, also after the return, and a call goes on to the read only when
\* the test found the deadline not reached.
C31_TimeoutReadsNothing ==
    [][ /\ (pc = "check" /\ pc' = "done" /\ raised' = "none") =>
              /\ outcome' = "Timeout"
              /\ response' = [response EXCEPT !.RC = RC_TIMEOUT]
              /\ rxbuf' = rxbuf
              /\ serial_output' = <<>>
        /\ pc' = "settle" => elapsed' < t_timeout
        /\ pc \in {"check", "done", "idle"} => RxKept
      ]_vars

C31_Witness ==
    /\ pc = "done"
    /\ outcome = "Timeout"
    /\ length = 0
    /\ t_timeout = 2
    /\ elapsed = 2
    /\ serial_output = <<>>
    /\ rxbuf = Reply(<<"0">>, str(id), <<"0">>, <<>>)

\* C32: a call ends Ok only on bytes the instrument produced in answer to the request
\* of this very call, never on a reply that belongs to an earlier request
C32_OkAnswersThisRequest ==
    (pc = "done" /\ outcome = "Ok") => answers = nCreated

\* C33: a response is returned with return code 0 only if the frame read
\* decodes and carries return code 0.
C33_RcZeroOnlyFromFrame ==
    (Returned /\ response.RC = 0) =>
        (Decodes(serial_output) /\ setResponse(ResponseClass, serial_output).RC = 0)

\* C34: when the poll loop ended with the policy met before the deadline, the
\* call does not return Timeout, whatever time passes before the deadline test.
C34_NoTimeoutWhenPolicyMet ==
    [][ (pc = "check" /\ PolicyMet /\ elapsed < t_timeout) => outcome' # "Timeout" ]_vars

NumericPayload(m) == Len(m.parameters) >= 3 /\ \A i \in 1..3 : IsFloat(m.parameters[i])
FullSuccess(m) == ~m.exc /\ m.RC = 0 /\ NumericPayload(m)
AccuracySuccess(m) == ~m.exc /\ m.RC = 1284 /\ NumericPayload(m)
AnglesOnly(m) == ~m.exc /\ m.RC \in {1285, 1288}
HardError(m) == ~m.exc /\ m.RC \notin {0, 1284, 1285, 1288}
NonNumeric(m) == ~m.exc /\ m.RC \in {0, 1284} /\ Len(m.parameters) >= 3 /\ ~NumericPayload(m)
\* the step in which get_measure sends its measurement request and handles the result
MeasureStep == tpc = "measure" /\ tpc' = "idle"

\* C14: a get_measure call whose measurement is a full success (return code 0,
\* two angles and a distance, all numeric) sets the failure count to 0 and the
\* last known coordinates to those of the measurement, and reports them as '0'.
C14_FullSuccessResetsAndRecords ==
    [][ (MeasureStep /\ FullSuccess(mea')) =>
            /\ FAIL_COUNT' = 0
            /\ OLD_COORD' = SubSeq(mea'.parameters, 1, 3)
            /\ res' = <<"0">> \o SubSeq(mea'.parameters, 1, 3)
      ]_vars

C14_Witness ==
    /\ tpc = "idle"
    /\ FullSuccess(mea)
    /\ mea.parameters = <<TokV, TokHz, TokDist>>
    /\ OLD_COORD = <<TokV, TokHz, TokDist>>
    /\ FAIL_COUNT = 0
    /\ phase = "Tracking"

\* C15: a get_measure call whose measurement is an accuracy-unverified success
\* (return code 1284) leaves the failure count at 0 and reports with prefix '1'.
C15_AccuracySuccessResets ==
    (tpc = "idle" /\ AccuracySuccess(mea)) => (FAIL_COUNT = 0 /\ Head(res) = "1")

\* C16: a get_measure call whose measurement is angles-only (return code 1285
\* or 1288) adds exactly one to the failure count and leaves the last known
\* coordinates as they were.
C16_AnglesOnlyCountsOne ==
    [][ (MeasureStep /\ AnglesOnly(mea')) =>
            (FAIL_COUNT' = FAIL_COUNT + 1 /\ OLD_COORD' = OLD_COORD)
      ]_vars

\* C17: a get_measure call whose measurement ends in a hard error (a return code
\* other than 0, 1284, 1285, 1288; 3077 is one) or in a non-numeric payload adds
\* exactly one to the failure count.
C17_HardErrorCountsOne ==
    [][ (MeasureStep /\ (HardError(mea') \/ NonNumeric(mea'))) => FAIL_COUNT' = FAIL_COUNT + 1
      ]_vars

C17_Witness ==
    /\ tpc = "idle"
    /\ mea = Resp(RC_TIMEOUT, <<>>)
    /\ res = <<"3">>
    /\ FAIL_COUNT = 101

\* C18: once a recovery search has ended, found or not, failed or not, the
\* failure count is 0.
C18_RecoveryResetsCount ==
    (tpc = "recoverLoop" \/ (tpc = "idle" /\ res = <<"SerialRequestError">>)) => FAIL_COUNT = 0

\* C19: a recovery search is centred on the two angles of the last known
\* coordinates, and uses the wide window when no coordinates were recorded.
C19_RecoveryCentreAndWindow ==
    tpc = "recoverLoop" =>
        /\ SubSeq(searchArea, 1, 2) = SubSeq(OLD_COORD, 1, 2)
        /\ OLD_COORD = InitCoord => SubSeq(searchArea, 3, 4) = WideWindow

\* C20: no controller operation retries a failed search by itself: none is ever
\* at the head of a retry loop, and none sends the wide-window search that only
\* the retry loops send.
C20_NoInternalRetry ==
    /\ tpc \notin {"setupLoop", "recoverLoop"}
    /\ searchArea # <<>> => SubSeq(searchArea, 3, 4) # WideWindow

\* the last powerSearchPrism call sent the request c
PsSent(c) == \E i \in 1..Len(psCall.sent) : psCall.sent[i] = c
\* its request number i was answered with a return code other than 0
PsFailedAt(i) == Len(psCall.sent) >= i /\ ~psCall.rs[i].exc /\ psCall.rs[i].RC # 0
PsOkAt(i) == Len(psCall.sent) >= i /\ ~psCall.rs[i].exc /\ psCall.rs[i].RC = 0

\* C21: a powerSearchPrism call sends its requests in the order search, fine
\* adjust, lock-in; the fine adjust only after the search returned 0, the
\* lock-in only after the fine adjust returned 0; a search or fine adjust that
\* returned another code leaves the controller in Searching with no lock-in
\* sent; and the call returns True only if the lock-in returned 0.
C21_AcquisitionOrder ==
    psCall # NoSearch =>
        /\ IsPrefix(psCall.sent, PsCmds)
        /\ PsSent("9037") => PsOkAt(4)
        /\ PsSent("9013") => (PsOkAt(4) /\ PsOkAt(5))
        /\ (PsFailedAt(4) \/ PsFailedAt(5)) =>
              (psCall.ret = "False" /\ ~PsSent("9013") /\ phase = "Searching")
        /\ psCall.ret = "True" => (PsSent("9013") /\ PsOkAt(6))

C21_Witness ==
    /\ psCall.ret = "False"
    /\ psCall.sent = SubSeq(PsCmds, 1, 5)
    /\ psCall.rs[5] = Resp(RC_NO_TARGET, <<>>)
    /\ tpc = "recoverLoop"
    /\ phase = "Searching"

\* C22: after a lock-in, the measurement mode is configured and a measurement
\* cycle started before a measurement is requested: no operation sends the
\* measurement request right after the lock-in request.
C22_ModeSetAfterEveryLock ==
    \A i \in 1..(Len(sent) - 1) : sent[i] = "9013" => sent[i + 1] # "2108"

\* C23: what get_measure returns is fixed by what its measurement got: the
\* coordinates with prefix '0' or '1' for return code 0 or 1284, "2" for 1285
\* or 1288, "3" for another code or a non-numeric value, "4" for a
\* SerialRequestError, and nothing else.
C23_ResultByOutcome ==
    (tpc = "idle" /\ mea # NoMea) =>
        /\ mea.exc => res = <<"4">>
        /\ FullSuccess(mea) => res = <<"0">> \o SubSeq(mea.parameters, 1, 3)
        /\ AccuracySuccess(mea) => res = <<"1">> \o SubSeq(mea.parameters, 1, 3)
        /\ AnglesOnly(mea) => res = <<"2">>
        /\ (HardError(mea) \/ NonNumeric(mea)) => res = <<"3">>
        /\ Head(res) \in {"0", "1", "2", "3", "4"}

\* C35: the last known coordinates change only in a measurement step reported as
\* '0' or '1' with a numeric payload; a return-code-0 or 1284 reply with a
\* non-numeric payload leaves them as they were, and their two angles are numeric
\* at all times.
C35_CoordsChangeOnlyOnNumericSuccess ==
    [][ /\ OLD_COORD' # OLD_COORD =>
              (MeasureStep /\ (FullSuccess(mea') \/ AccuracySuccess(mea')))
        /\ (MeasureStep /\ NonNumeric(mea')) => OLD_COORD' = OLD_COORD
        /\ IsFloat(OLD_COORD[1]) /\ IsFloat(OLD_COORD[2])
      ]_vars

\* C36: the failure count is between 0 and 101 whenever get_measure has returned,
\* and the measurement request is sent only with a count of at most 100.
C36_CountBounded ==
    /\ tpc = "idle" => FAIL_COUNT \in 0..(RecoveryThreshold + 1)
    /\ tpc = "measure" => FAIL_COUNT <= RecoveryThreshold
    /\ (tpc = "measure" /\ psCall.ret # "none") => FAIL_COUNT = 0

C36_Witness ==
    /\ tpc = "measure"
    /\ psCall.ret = "True"
    /\ searchArea = <<TokV, TokHz>> \o WideWindow
    /\ FAIL_COUNT = 0
    /\ res = <<"3">>

\* C37: a get_measure call that has returned gave one of the five result classes
\* '0', '1', '2', '3', '4'; nothing else leaves it, from the measurement or from
\* the recovery search before it.
C37_ResultIsOneOfFive ==
    (tpc = "idle" /\ res # <<>>) => Head(res) \in {"0", "1", "2", "3", "4"}

\* C38: a get_measure call entered with a failure count of at most 100 whose
\* measurement request raises a communication error returns "4" and leaves the
\* failure count and the last known coordinates as they were.
C38_CommErrorKeepsState ==
    [][ (MeasureStep /\ psCall = NoSearch /\ mea'.exc) =>
            /\ res' = <<"4">>
            /\ FAIL_COUNT' = FAIL_COUNT
            /\ OLD_COORD' = OLD_COORD
      ]_vars

C38_Witness ==
    /\ tpc = "idle"
    /\ mea = Sre
    /\ res = <<"4">>
    /\ FAIL_COUNT = 3
    /\ OLD_COORD = <<TokHz, TokV, TokDist>>

\* C39: when the failure count is above 100 and the instrument from some point on
\* answers the requests of the search with return code 0, the get_measure call
\* completes the recovery: the count is 0 and the measurement request is next.
C39_RecoveryCompletes ==
    (tpc \in {"recover", "recoverLoop"} /\ coop) ~> (tpc = "measure" /\ FAIL_COUNT = 0)

====
